---- MODULE Spec2Model ----
(***************************************************************************)
(* Transaction lifecycle of MarginfiClient                                 *)
(* (patch/marginfi-client-v2/src/client.ts): blockhash acquisition,        *)
(* compilation, signing, single-shot / spam-resend broadcast, confirmation *)
(* polling bounded by block height, relay submission, error classification.*)
(*                                                                         *)
(* A submission is one call of an async method.  Every await is a          *)
(* suspension point: one action is the RPC (or wallet) response together   *)
(* with the synchronous continuation that runs up to the next await,       *)
(* including the catch handler when the continuation throws.               *)
(***************************************************************************)
EXTENDS Integers, Sequences, FiniteSets, TLC

\* ------------------------------------------------------------------ bounds
\* Highest block height the network reaches.
MaxHeight == 3
\* Blocks a blockhash stays valid after the height at which it was fetched.
ValidWindow == 2
\* Most send calls a loop issues while the network produces no block.
MaxStall == 1

\* Slots without a block before the first block height of a run.
SkippedSlots == 5

\* ------------------------------------------------------- program constants
\* for (let i = 0; i < 5; i++)
PollAttempts == 5

\* minContextSlot = getLatestBlockhashAndContext.context.slot - 4
SlotMargin == 4

\* if (totalSize > 1232 || totalKeys >= 64)
MaxTotalSize == 1232
MaxTotalKeys == 64

\* Submissions (calls in flight on one client).
Subs == {1, 2}

VARIABLES
  \* client configuration (constructor)
  spamSendTx, skipPreflightInSpam, sendEndpoint, isReadOnly,
  \* network
  blockHeight, ledger,
  \* per submission: arguments
  op, transaction, dryRun, jitoTip, priorityFee, opts,
  \* per submission: locals of the method
  pc, blockhash, lastValidBlockHeight, versionedTransaction, signature,
  status, i, rawTx, signatureStatus, result, error,
  \* per submission: calls made so far
  sent, rpcLog, nFetch, simCalls, simOpts, nPolls, nReads, firstTargetPoll,
  walletCalls, stall

clientVars == <<spamSendTx, skipPreflightInSpam, sendEndpoint, isReadOnly>>
netVars == <<blockHeight, ledger>>
argVars == <<op, transaction, dryRun, jitoTip, priorityFee, opts>>
localVars == <<pc, blockhash, lastValidBlockHeight, versionedTransaction,
               signature, status, i, rawTx, signatureStatus, result, error>>
callVars == <<sent, rpcLog, nFetch, simCalls, simOpts, nPolls, nReads,
              firstTargetPoll, walletCalls, stall>>
vars == <<clientVars, netVars, argVars, localVars, callVars>>

\* ------------------------------------------------------------ data values
NoTx == [kind |-> "none", msg |-> 0, blockhash |-> -1, sigs |-> {},
         size |-> 0, keys |-> 0, instructions |-> <<>>]

\* The signature that identifies a signed transaction on the network: the fee
\* payer's signature over the message, which binds the blockhash.
Sig(tx) == <<tx.msg, tx.blockhash>>

\* tx.serialize(): the wire bytes carry message, blockhash and signatures.
Serialize(tx) == <<tx.msg, tx.blockhash, tx.sigs>>

Rank(st) ==
  CASE st = "null" -> 0
    [] st = "processed" -> 1
    [] st = "confirmed" -> 2
    [] st = "finalized" -> 3

\* getSignatureStatus(sig).value as the node reports it: the commitment level
\* the transaction has reached and the error its execution ended with.
SignatureStatus(sig) ==
  IF sig \in DOMAIN ledger THEN ledger[sig]
  ELSE [confirmationStatus |-> "null", err |-> "null"]

\* Mutant: a transaction whose execution failed is read as not yet seen.
StatusOf_unlessErr(sig) ==
  IF SignatureStatus(sig).err # "null" THEN "null"
  ELSE SignatureStatus(sig).confirmationStatus

\* lines 644, 826, 1037: signatureStatus.value?.confirmationStatus, all that
\* the callers read of the status.
StatusOf(sig) == SignatureStatus(sig).confirmationStatus

Pending == [kind |-> "pending", type |-> "none", value |-> <<>>,
            description |-> "none", logs |-> "undefined"]
Returned(v) == [kind |-> "returned", type |-> "none", value |-> v,
                description |-> "none", logs |-> "undefined"]
Thrown(t, d, l) == [kind |-> "thrown", type |-> t, value |-> <<>>,
                    description |-> d, logs |-> l]

\* No error caught (yet).
NoError == [cls |-> "none", message |-> "none", logs |-> "undefined"]

\* Errors an RPC call can throw.  logs is "undefined", "empty" (an empty array),
\* "unknown" (lines without a recognizable program error) or "known".
RpcError == [cls |-> "Error", message |-> "rpc", logs |-> "undefined"]
SendTransactionError(m, l) == [cls |-> "SendTransactionError", message |-> m, logs |-> l]
ProcessTransactionError(m, t) == [cls |-> "ProcessTransactionError", message |-> m, logs |-> "undefined", type |-> t]

\* Errors sendTransaction can throw: an RPC error response (with or without
\* preflight logs) or a transport failure.
SendErrors == {SendTransactionError("rpc", l) : l \in {"undefined", "unknown", "known"}}
              \cup {RpcError}

\* What simulateTransaction answers: value.err and value.logs.  A failed
\* simulation has no logs (null), lines without a recognizable program error,
\* or lines with one; a successful one has the program's lines.
SimResponses ==
  [err : {"err"}, logs : {"null", "unknown", "known"}]
  \cup {[err |-> "null", logs |-> "unknown"]}

\* A simulateTransaction call that threw, as simCalls records it.
SimThrew == [err |-> "threw", logs |-> "null"]

\* response.value.logs ?? []
OrEmpty(logs) == IF logs = "null" THEN "empty" ELSE logs

\* parseErrorFromLogs(logs, programId): a description when a log line carries
\* a recognizable program error.
parseErrorFromLogs(logs) == IF logs = "known" THEN "parsed" ELSE "null"

\* lines 686, 867: if (error.logs), with an empty array taken as no logs.
Classify_emptyIsNoLogs(caught) ==
  IF caught.cls = "SendTransactionError" /\ caught.logs \notin {"undefined", "empty"}
  THEN Thrown("SimulationError",
              IF parseErrorFromLogs(caught.logs) # "null"
                THEN parseErrorFromLogs(caught.logs) ELSE caught.message,
              caught.logs)
  ELSE Thrown("FallthroughError", caught.message, "undefined")

\* The catch handler of processTransaction / sendAndConfirmTransaction.
Classify(caught) ==
  IF caught.cls = "SendTransactionError" /\ caught.logs # "undefined"
  THEN Thrown("SimulationError",
              IF parseErrorFromLogs(caught.logs) # "null"
                THEN parseErrorFromLogs(caught.logs) ELSE caught.message,
              caught.logs)
  ELSE Thrown("FallthroughError", caught.message, "undefined")

\* The connection a send-transaction call of processTransaction /
\* sendAndConfirmTransaction in spam mode goes to.
sendConnection == IF sendEndpoint THEN "send" ELSE "primary"

\* A message within the network's limits: at most 1232 bytes on the wire and
\* fewer than 64 account keys.  A node answers a send or simulate request for
\* any other message with an error.
Fits(tx) == tx.size <= MaxTotalSize /\ tx.keys < MaxTotalKeys

\* The node accepts a transaction: a signature it already knows is a no-op.
NodeReceive(l, tx) ==
  IF Sig(tx) \in DOMAIN l THEN l
  ELSE [g \in DOMAIN l \cup {Sig(tx)} |->
          IF g \in DOMAIN l THEN l[g]
          ELSE [confirmationStatus |-> "null", err |-> "null"]]

\* The calls a caller can make: processTransaction takes a Transaction (to be
\* compiled) or a VersionedTransaction; sendAndConfirmTransaction and
\* sendAndConfirmTrancationJito take a VersionedTransaction that signTransaction
\* / signTranscationJito compiled and signed at block height 0.
\* size and keys are the serialized length and the number of static account
\* keys of the message (for a Transaction: of the message it compiles to); the
\* inputs sit on both sides of the two limits.
\* instructions is the caller's instruction list (transaction.instructions), and
\* for a VersionedTransaction the list its message was compiled from.
CallerInstructions == <<"ix">>
LegacyTx(m, sz, k) ==
  [kind |-> "legacy", msg |-> m, blockhash |-> -1, sigs |-> {}, size |-> sz, keys |-> k,
   instructions |-> CallerInstructions]
VersionedTx(m, sg, sz, k) ==
  [kind |-> "versioned", msg |-> m, blockhash |-> 0, sigs |-> sg, size |-> sz, keys |-> k,
   instructions |-> CallerInstructions]
Shapes == {MaxTotalSize, MaxTotalSize + 1} \X {MaxTotalKeys - 1, MaxTotalKeys}
Fitting == <<MaxTotalSize, MaxTotalKeys - 1>>
Calls ==
  [op : {"processTransaction"},
   transaction : {LegacyTx(1, sh[1], sh[2]) : sh \in Shapes}
                 \cup {VersionedTx(1, {}, sh[1], sh[2]) : sh \in Shapes},
   dryRun : BOOLEAN, jitoTip : {0}, priorityFee : {0}]
  \cup [op : {"sendAndConfirmTransaction", "sendAndConfirmTrancationJito"},
        transaction : {VersionedTx(1, {"wallet"}, Fitting[1], Fitting[2])},
        dryRun : {FALSE}, jitoTip : {0}, priorityFee : {0}]
  \cup [op : {"signTransaction"},
        transaction : {LegacyTx(1, sh[1], sh[2]) : sh \in Shapes}
                      \cup {VersionedTx(1, {}, sh[1], sh[2]) : sh \in Shapes},
        dryRun : {FALSE}, jitoTip : {0}, priorityFee : {0}]
  \cup [op : {"simulateTransaction"},
        transaction : {LegacyTx(1, sh[1], sh[2]) : sh \in Shapes}
                      \cup {VersionedTx(1, {}, Fitting[1], Fitting[2])},
        dryRun : {FALSE}, jitoTip : {0}, priorityFee : {0}]
  \cup [op : {"signTranscationJito"},
        transaction : {LegacyTx(1, sh[1], sh[2]) : sh \in Shapes},
        dryRun : {FALSE}, jitoTip : {0, 1}, priorityFee : {0, 1}]

\* The methods whose argument is the signed VersionedTransaction itself.
TakesSigned == {"sendAndConfirmTransaction", "sendAndConfirmTrancationJito"}

\* Client options (constructor, lines 80-103): a flag the called method reads
\* takes both values, a flag it never reads stays at the constructor's default.
ReadsSpamSendTx == {"processTransaction", "sendAndConfirmTransaction"}
ReadsIsReadOnly == {"processTransaction"}
Flag(read, default) == IF read THEN BOOLEAN ELSE {default}

\* opts?: TransactionOptions.  A dry run is asked for through opts; a call
\* that never simulates makes no use of opts that the model records.
OptsOf(o, dry, spam, precheck, readOnly) ==
  IF o = "processTransaction" /\ dry THEN {"given"}
  ELSE IF \/ o = "processTransaction" /\ (readOnly \/ (spam /\ precheck))
          \/ o = "sendAndConfirmTransaction" /\ spam /\ precheck
       THEN {"undefined", "given"}
       ELSE {"undefined"}

\* ------------------------------------------------------------------- Init
Init ==
  /\ blockHeight = 0
  /\ ledger = <<>>
  /\ \E a \in Calls :
       /\ spamSendTx \in Flag(a.op \in ReadsSpamSendTx, TRUE)
       /\ skipPreflightInSpam \in Flag(a.op \in ReadsSpamSendTx, TRUE)
       /\ sendEndpoint \in Flag(a.op \in ReadsSpamSendTx, FALSE)
       /\ isReadOnly \in Flag(a.op \in ReadsIsReadOnly, FALSE)
       /\ op = [s \in Subs |-> IF s = 1 THEN a.op ELSE "idle"]
       /\ transaction = [s \in Subs |-> IF s = 1 THEN a.transaction ELSE NoTx]
       /\ dryRun = [s \in Subs |-> IF s = 1 THEN a.dryRun ELSE FALSE]
       /\ jitoTip = [s \in Subs |-> IF s = 1 THEN a.jitoTip ELSE 0]
       /\ priorityFee = [s \in Subs |-> IF s = 1 THEN a.priorityFee ELSE 0]
       /\ \E o \in OptsOf(a.op, a.dryRun, spamSendTx, skipPreflightInSpam, isReadOnly) :
            opts = [s \in Subs |-> IF s = 1 THEN o ELSE "undefined"]
       /\ versionedTransaction = [s \in Subs |->
            IF s = 1 /\ a.op \in TakesSigned THEN a.transaction ELSE NoTx]
  /\ pc = [s \in Subs |-> IF s = 1 THEN "start" ELSE "idle"]
  /\ blockhash = [s \in Subs |-> -1]
  /\ lastValidBlockHeight = [s \in Subs |-> -1]
  /\ signature = [s \in Subs |-> <<>>]
  /\ status = [s \in Subs |-> "pending"]
  /\ i = [s \in Subs |-> 0]
  /\ rawTx = [s \in Subs |-> <<>>]
  /\ signatureStatus = [s \in Subs |-> "null"]
  /\ result = [s \in Subs |-> Pending]
  /\ error = [s \in Subs |-> NoError]
  /\ sent = [s \in Subs |-> <<>>]
  /\ rpcLog = [s \in Subs |-> {}]
  /\ nFetch = [s \in Subs |-> 0]
  /\ simCalls = [s \in Subs |-> <<>>]
  /\ simOpts = [s \in Subs |-> <<>>]
  /\ nPolls = [s \in Subs |-> 0]
  /\ nReads = [s \in Subs |-> 0]
  /\ firstTargetPoll = [s \in Subs |-> 0]
  /\ walletCalls = [s \in Subs |-> 0]
  /\ stall = [s \in Subs |-> 0]

\* --------------------------------------------------------------- network
\* A call is in flight.  What the network does when none is, no call observes.
Running == \E s \in Subs : pc[s] \notin {"idle", "done"}

\* The network produces a block.
Tick ==
  /\ Running
  /\ blockHeight < MaxHeight
  /\ blockHeight' = blockHeight + 1
  /\ stall' = [s \in Subs |-> 0]
  /\ UNCHANGED <<ledger, clientVars, argVars, localVars,
                 sent, rpcLog, nFetch, simCalls, simOpts, nPolls, nReads, firstTargetPoll, walletCalls>>

\* The node moves a transaction it received to the next commitment level; a
\* transaction is first processed only while its blockhash is still valid.
\* Its execution ends with the error e, which stays with the transaction.
NodeProcess(g, e) ==
  /\ Running
  /\ g \in DOMAIN ledger
  /\ ledger[g].confirmationStatus # "finalized"
  /\ ledger[g].confirmationStatus = "null" => blockHeight <= g[2] + ValidWindow
  /\ ledger[g].confirmationStatus # "null" => e = ledger[g].err
  /\ ledger' = [ledger EXCEPT ![g] =
       [confirmationStatus |->
          CASE @.confirmationStatus = "null" -> "processed"
            [] @.confirmationStatus = "processed" -> "confirmed"
            [] @.confirmationStatus = "confirmed" -> "finalized",
        err |-> e]]
  /\ UNCHANGED <<blockHeight, clientVars, argVars, localVars, callVars>>

\* The transaction advances, or executes without error.
NodeAdvance(g) == NodeProcess(g, ledger[g].err)

\* The transaction is processed and its execution fails on chain.
NodeFail(g) == ledger[g].confirmationStatus = "null" /\ NodeProcess(g, "err")

\* ---------------------------------------------------------------- helpers
\* The call ends: it returns or throws `r`.
Finish(s, r) ==
  /\ result' = [result EXCEPT ![s] = r]
  /\ pc' = [pc EXCEPT ![s] = "done"]
  /\ UNCHANGED error

\* Mutant: the loop swallows the error of a resend and goes on polling.
Catch_resendSwallowed(s, e) ==
  /\ error' = [error EXCEPT ![s] = e]
  /\ IF pc[s] = "send" /\ sent[s] # <<>>
     THEN pc' = [pc EXCEPT ![s] = "poll"] /\ UNCHANGED result
     ELSE /\ result' = [result EXCEPT ![s] = Classify(e)]
          /\ pc' = [pc EXCEPT ![s] = "done"]

\* catch (error: any) of processTransaction / sendAndConfirmTransaction: the
\* call ends by throwing what the handler makes of the error it caught.
Catch(s, e) ==
  /\ error' = [error EXCEPT ![s] = e]
  /\ result' = [result EXCEPT ![s] = Classify(e)]
  /\ pc' = [pc EXCEPT ![s] = "done"]

\* simulateTransaction was called and answered r (or threw).
Simulated(s, r) == simCalls' = [simCalls EXCEPT ![s] = Append(@, r)]

\* The second argument of that simulateTransaction call: o is the set holding
\* its minContextSlot, empty when it has none.
Passed(s, o) == simOpts' = [simOpts EXCEPT ![s] = Append(@, o)]

\* An RPC call was made on a connection; the blockhash fetches are counted.
Logged(s, rpc, conn) ==
  /\ rpcLog' = [rpcLog EXCEPT ![s] = @ \cup {<<rpc, conn>>}]
  /\ nFetch' = [nFetch EXCEPT ![s] =
       IF rpc \in {"getLatestBlockhashAndContext", "getLatestBlockhash"}
       THEN @ + 1 ELSE @]

\* The context slot the node reports with the blockhash of height h: slots run
\* ahead of block heights by the slots that produced no block.
Slot(h) == h + SkippedSlots

\* lines 557, 772, 920: getLatestBlockhashAndContext.context.slot - 4, for the
\* fetch of call s (blockhash[s] is the height it was answered at).
minContextSlot(s) == Slot(blockhash[s]) - SlotMargin

\* A caller's TransactionOptions: they carry no minContextSlot.
GivenOpts == {}

\* lines 583, 628: opts ?? { minContextSlot, sigVerify: false }
processTransaction_simulateOpts(s) ==
  IF opts[s] # "undefined" THEN GivenOpts ELSE {minContextSlot(s)}

\* line 795: opts ?? { minContextSlot, sigVerify: false }
sendAndConfirmTransaction_simulateOpts(s) ==
  IF opts[s] # "undefined" THEN GivenOpts ELSE {minContextSlot(s)}

\* new TransactionMessage({instructions, payerKey, recentBlockhash})
\*   .compileToV0Message(addressLookupTables), or the caller's transaction
\* when it is a VersionedTransaction already.
Compile(tx, bh) ==
  IF tx.kind = "legacy"
  THEN [kind |-> "versioned", msg |-> tx.msg, blockhash |-> bh, sigs |-> {},
        size |-> tx.size, keys |-> tx.keys, instructions |-> tx.instructions]
  ELSE tx

\* versionedTransaction.sign(signers) / wallet.signTransaction(tx)
SignWith(tx, who) == [tx EXCEPT !.sigs = @ \cup {who}]

\* versionedTransaction.signatures[0]: the fee payer's slot, all zeroes until
\* the wallet has signed.
FirstSignature(tx) == IF "wallet" \in tx.sigs THEN Sig(tx) ELSE <<0, 0>>

\* ------------------------------------------------------ processTransaction
\* Mutant: 'confirmed' is taken for the target as well.
processTransaction_target_loose(st) == st \in {"confirmed", "finalized"}

\* line 644: signatureStatus.value?.confirmationStatus === 'finalized'
processTransaction_target(st) == st = "finalized"

\* Mutant: the validity window is added once more to the expiry height.
processTransaction_expired_late(height, lvbh) == height > lvbh + ValidWindow

\* line 652: blockHeight > lastValidBlockHeight
processTransaction_expired(height, lvbh) == height > lvbh

\* Mutant: the exit test compares with the other call site's status word.
processTransaction_confirmed_processed(st) == st = "processed"

\* line 659: status === "finalized"
processTransaction_confirmed(st) == st = "finalized"

\* Mutant: every send recompiles the message with the latest blockhash.
processTransaction_sendArg_fresh(s) ==
  [versionedTransaction[s] EXCEPT !.blockhash = blockHeight]

\* line 635: the transaction handed to sendConnection.sendTransaction
processTransaction_sendArg(s) == versionedTransaction[s]

\* Mutant: a read-only client submits like any other.
processTransaction_simulateOnly_dryRun(s) == dryRun[s]

\* line 580: opts?.dryRun || this.isReadOnly
processTransaction_simulateOnly(s) == dryRun[s] \/ isReadOnly

\* Mutant: the build error is rethrown as it was caught.
processTransaction_buildError_rethrown(message) ==
  Thrown("Error", message, "undefined")

\* lines 574-577: what the catch of the build step throws.
processTransaction_buildError(message) ==
  Thrown("TransactionBuildingError", message, "undefined")

\* lines 554-577: blockhash fetch, compile, local signers.
processTransaction_build(s) ==
  /\ op[s] = "processTransaction" /\ pc[s] = "start"
  /\ Logged(s, "getLatestBlockhashAndContext", "primary")
  /\ \/ /\ Finish(s, processTransaction_buildError("rpc"))
        /\ UNCHANGED <<blockhash, lastValidBlockHeight, versionedTransaction>>
     \/ \E signers \in {"absent", "present", "missing"} :
          /\ blockhash' = [blockhash EXCEPT ![s] = blockHeight]
          /\ lastValidBlockHeight' =
               [lastValidBlockHeight EXCEPT ![s] = blockHeight + ValidWindow]
          /\ IF signers = "missing"
             THEN /\ Finish(s, processTransaction_buildError("signer"))
                  /\ versionedTransaction' = [versionedTransaction EXCEPT ![s] =
                       Compile(transaction[s], blockHeight)]
             ELSE /\ versionedTransaction' = [versionedTransaction EXCEPT ![s] =
                       IF signers = "present"
                       THEN SignWith(Compile(transaction[s], blockHeight), "local")
                       ELSE Compile(transaction[s], blockHeight)]
                  /\ pc' = [pc EXCEPT ![s] =
                       IF processTransaction_simulateOnly(s)
                       THEN "simulate" ELSE "walletSign"]
                  /\ UNCHANGED <<result, error>>
  /\ UNCHANGED <<clientVars, simCalls, simOpts, netVars, argVars, signature, status, i, rawTx,
                 signatureStatus,
                 sent, nPolls, nReads, firstTargetPoll, walletCalls, stall>>

\* lines 580-609: dry run.
processTransaction_simulate(s) ==
  /\ op[s] = "processTransaction" /\ pc[s] = "simulate"
  /\ Logged(s, "simulateTransaction", "primary")
  /\ Passed(s, processTransaction_simulateOpts(s))
  /\ \/ Simulated(s, SimThrew) /\ Catch(s, RpcError)
     \/ \E r \in SimResponses :
          /\ Fits(versionedTransaction[s])
          /\ Simulated(s, r)
          /\ IF r.err # "null"
             THEN Catch(s, SendTransactionError("err", OrEmpty(r.logs)))
             ELSE Finish(s, Returned(FirstSignature(versionedTransaction[s])))
  /\ UNCHANGED <<clientVars, netVars, argVars, blockhash, lastValidBlockHeight,
                 versionedTransaction, signature, status, i, rawTx, signatureStatus,
                 sent, nPolls, nReads, firstTargetPoll, walletCalls, stall>>

\* Mutant: spam mode sends without its pre-check simulation.
processTransaction_afterSign_unchecked ==
  IF spamSendTx THEN "send" ELSE "sendOnce"

\* lines 621, 624, 663: if (this.spamSendTx) { if (this.skipPreflightInSpam)
\* simulate first; then the loop } else the single send.
processTransaction_afterSign ==
  IF spamSendTx
  THEN IF skipPreflightInSpam THEN "precheck" ELSE "send"
  ELSE "sendOnce"

\* lines 611-621, 663: the wallet signs; the mode is chosen.
processTransaction_walletSign(s) ==
  /\ op[s] = "processTransaction" /\ pc[s] = "walletSign"
  /\ walletCalls' = [walletCalls EXCEPT ![s] = @ + 1]
  /\ \/ /\ Catch(s, [cls |-> "Error", message |-> "wallet", logs |-> "undefined"])
        /\ UNCHANGED versionedTransaction
     \/ /\ versionedTransaction' = [versionedTransaction EXCEPT ![s] = SignWith(@, "wallet")]
        /\ pc' = [pc EXCEPT ![s] = processTransaction_afterSign]
        /\ UNCHANGED <<result, error>>
  /\ UNCHANGED <<clientVars, simCalls, simOpts, netVars, argVars, blockhash,
                 lastValidBlockHeight, signature, status, i, rawTx, signatureStatus,
                 sent, rpcLog, nFetch, nPolls, nReads, firstTargetPoll, stall>>

\* line 630: if (response.value.err)
processTransaction_precheckFailed_never(err) == FALSE

processTransaction_precheckFailed(err) == err # "null"

\* lines 624-632: spam mode pre-check.
processTransaction_precheck(s) ==
  /\ op[s] = "processTransaction" /\ pc[s] = "precheck"
  /\ Logged(s, "simulateTransaction", "primary")
  /\ Passed(s, processTransaction_simulateOpts(s))
  /\ \/ Simulated(s, SimThrew) /\ Catch(s, RpcError)
     \/ \E r \in SimResponses :
          /\ Fits(versionedTransaction[s])
          /\ Simulated(s, r)
          /\ IF processTransaction_precheckFailed(r.err)
             THEN Catch(s, SendTransactionError("err", OrEmpty(r.logs)))
             ELSE /\ pc' = [pc EXCEPT ![s] = "send"]
                  /\ UNCHANGED <<result, error>>
  /\ UNCHANGED <<clientVars, netVars, argVars, blockhash, lastValidBlockHeight,
                 versionedTransaction, signature, status, i, rawTx, signatureStatus,
                 sent, nPolls, nReads, firstTargetPoll, walletCalls, stall>>

\* lines 634-639: spam mode send.
processTransaction_send(s) ==
  /\ op[s] = "processTransaction" /\ pc[s] = "send"
  /\ stall[s] < MaxStall
  /\ stall' = [stall EXCEPT ![s] = @ + 1]
  /\ sent' = [sent EXCEPT ![s] =
       Append(@, [to |-> sendConnection, bytes |-> Serialize(processTransaction_sendArg(s))])]
  /\ \/ /\ \E e \in SendErrors : Catch(s, e)
        /\ UNCHANGED <<ledger, signature, i>>
     \/ /\ Fits(processTransaction_sendArg(s))
        /\ ledger' = NodeReceive(ledger, processTransaction_sendArg(s))
        /\ signature' = [signature EXCEPT ![s] = Sig(processTransaction_sendArg(s))]
        /\ i' = [i EXCEPT ![s] = 0]
        /\ pc' = [pc EXCEPT ![s] = "poll"]
        /\ UNCHANGED <<result, error>>
  /\ UNCHANGED <<clientVars, simCalls, simOpts, blockHeight, argVars, blockhash, lastValidBlockHeight,
                 versionedTransaction, status, rawTx, signatureStatus,
                 rpcLog, nFetch, nPolls, nReads, firstTargetPoll, walletCalls>>

\* lines 640-649: one status poll of the sub-loop (and the sleep after it).
processTransaction_getSignatureStatus(s) ==
  /\ op[s] = "processTransaction" /\ pc[s] = "poll"
  /\ Logged(s, "getSignatureStatus", "primary")
  /\ nPolls' = [nPolls EXCEPT ![s] = @ + 1]
  /\ \/ /\ Catch(s, RpcError)
        /\ UNCHANGED <<status, i, firstTargetPoll>>
     \/ /\ UNCHANGED <<result, error>>
        /\ IF processTransaction_target(StatusOf(signature[s]))
           THEN /\ status' = [status EXCEPT ![s] = "finalized"]
                /\ firstTargetPoll' = [firstTargetPoll EXCEPT ![s] =
                     IF @ = 0 THEN nPolls[s] + 1 ELSE @]
                /\ pc' = [pc EXCEPT ![s] = "height"]
                /\ UNCHANGED i
           ELSE /\ i' = [i EXCEPT ![s] = @ + 1]
                /\ pc' = [pc EXCEPT ![s] =
                     IF i[s] + 1 < PollAttempts THEN "poll" ELSE "height"]
                /\ UNCHANGED <<status, firstTargetPoll>>
  /\ UNCHANGED <<clientVars, simCalls, simOpts, netVars, argVars, blockhash, lastValidBlockHeight,
                 versionedTransaction, signature, rawTx, signatureStatus,
                 sent, nReads, walletCalls, stall>>

\* lines 651-662, 680: expiry check, then loop exit or next iteration.
processTransaction_getBlockHeight(s) ==
  /\ op[s] = "processTransaction" /\ pc[s] = "height"
  /\ Logged(s, "getBlockHeight", "primary")
  /\ nReads' = [nReads EXCEPT ![s] = @ + 1]
  /\ \/ Catch(s, RpcError)
     \/ IF processTransaction_expired(blockHeight, lastValidBlockHeight[s])
        THEN Catch(s, ProcessTransactionError("not confirmed in time", "TimeoutError"))
        ELSE IF processTransaction_confirmed(status[s])
             THEN Finish(s, Returned(signature[s]))
             ELSE /\ pc' = [pc EXCEPT ![s] = "send"]
                  /\ UNCHANGED <<result, error>>
  /\ UNCHANGED <<clientVars, simCalls, simOpts, netVars, argVars, blockhash, lastValidBlockHeight,
                 versionedTransaction, signature, status, i, rawTx, signatureStatus,
                 sent, nPolls, firstTargetPoll, walletCalls, stall>>

\* lines 664-669: single-shot send.
processTransaction_sendOnce(s) ==
  /\ op[s] = "processTransaction" /\ pc[s] = "sendOnce"
  /\ sent' = [sent EXCEPT ![s] =
       Append(@, [to |-> "primary", bytes |-> Serialize(versionedTransaction[s])])]
  /\ \/ /\ \E e \in SendErrors : Catch(s, e)
        /\ UNCHANGED <<ledger, signature>>
     \/ /\ Fits(versionedTransaction[s])
        /\ ledger' = NodeReceive(ledger, versionedTransaction[s])
        /\ signature' = [signature EXCEPT ![s] = Sig(versionedTransaction[s])]
        /\ pc' = [pc EXCEPT ![s] = "confirm"]
        /\ UNCHANGED <<result, error>>
  /\ UNCHANGED <<clientVars, simCalls, simOpts, blockHeight, argVars, blockhash, lastValidBlockHeight,
                 versionedTransaction, status, i, rawTx, signatureStatus,
                 rpcLog, nFetch, nPolls, nReads, firstTargetPoll, walletCalls, stall>>

\* Mutant: signature is one variable of the client, which the other call in
\* flight has set.
processTransaction_confirmArg_shared(s) == signature[CHOOSE u \in Subs : u # s]

\* lines 543, 664-675: let signature, assigned by this call's send and handed
\* to confirmTransaction.
processTransaction_confirmArg(s) == signature[s]

\* Mutant: an expired confirmation sends the transaction again.
processTransaction_confirmTransaction_retry(s) ==
  /\ op[s] = "processTransaction" /\ pc[s] = "confirm"
  /\ Logged(s, "confirmTransaction", "primary")
  /\ \/ Catch(s, RpcError)
     \/ /\ Rank(StatusOf(signature[s])) >= Rank("finalized")
        /\ Finish(s, Returned(signature[s]))
     \/ /\ blockHeight > lastValidBlockHeight[s]
        /\ pc' = [pc EXCEPT ![s] = "sendOnce"]
        /\ UNCHANGED <<result, error>>
  /\ UNCHANGED <<clientVars, simCalls, simOpts, netVars, argVars, blockhash, lastValidBlockHeight,
                 versionedTransaction, signature, status, i, rawTx, signatureStatus,
                 sent, nPolls, nReads, firstTargetPoll, walletCalls, stall>>

\* lines 670-680: connection.confirmTransaction({blockhash, lastValidBlockHeight,
\* signature}, 'finalized') resolves once the signature is finalized and
\* rejects once the block height has passed lastValidBlockHeight.
processTransaction_confirmTransaction(s) ==
  /\ op[s] = "processTransaction" /\ pc[s] = "confirm"
  /\ Logged(s, "confirmTransaction", "primary")
  /\ \/ Catch(s, RpcError)
     \/ /\ Rank(StatusOf(processTransaction_confirmArg(s))) >= Rank("finalized")
        /\ Finish(s, Returned(signature[s]))
     \/ /\ blockHeight > lastValidBlockHeight[s]
        /\ Catch(s, [cls |-> "Error", message |-> "block height exceeded",
                               logs |-> "undefined"])
  /\ UNCHANGED <<clientVars, simCalls, simOpts, netVars, argVars, blockhash, lastValidBlockHeight,
                 versionedTransaction, signature, status, i, rawTx, signatureStatus,
                 sent, nPolls, nReads, firstTargetPoll, walletCalls, stall>>

processTransaction(s) ==
  \/ processTransaction_build(s)
  \/ processTransaction_simulate(s)
  \/ processTransaction_walletSign(s)
  \/ processTransaction_precheck(s)
  \/ processTransaction_send(s)
  \/ processTransaction_getSignatureStatus(s)
  \/ processTransaction_getBlockHeight(s)
  \/ processTransaction_sendOnce(s)
  \/ processTransaction_confirmTransaction(s)

\* ------------------------------------------------ sendAndConfirmTransaction
\* line 823: confirmationStatus === 'processed' || 'confirmed' || 'finalized'
sendAndConfirmTransaction_target(st) == st \in {"processed", "confirmed", "finalized"}

\* line 831: blockHeight > lastValidBlockHeight
sendAndConfirmTransaction_expired(height, lvbh) == height > lvbh

\* Mutant: the exit test compares with the other call site's status word.
sendAndConfirmTransaction_confirmed_finalized(st) == st = "finalized"

\* line 838: status === "processed"
sendAndConfirmTransaction_confirmed(st) == st = "processed"

\* Mutant: every send recompiles the message with the latest blockhash.
sendAndConfirmTransaction_sendArg_fresh(s) ==
  [versionedTransaction[s] EXCEPT !.blockhash = blockHeight]

\* line 808: the transaction handed to sendConnection.sendTransaction
sendAndConfirmTransaction_sendArg(s) == versionedTransaction[s]

\* lines 769-790, 842: blockhash fetch inside the try block; the mode is chosen.
sendAndConfirmTransaction_getLatestBlockhashAndContext(s) ==
  /\ op[s] = "sendAndConfirmTransaction" /\ pc[s] = "start"
  /\ Logged(s, "getLatestBlockhashAndContext", "primary")
  /\ \/ /\ Catch(s, RpcError)
        /\ UNCHANGED <<blockhash, lastValidBlockHeight>>
     \/ /\ blockhash' = [blockhash EXCEPT ![s] = blockHeight]
        /\ lastValidBlockHeight' =
             [lastValidBlockHeight EXCEPT ![s] = blockHeight + ValidWindow]
        /\ pc' = [pc EXCEPT ![s] =
             IF spamSendTx
             THEN IF skipPreflightInSpam THEN "precheck" ELSE "send"
             ELSE "sendOnce"]
        /\ UNCHANGED <<result, error>>
  /\ UNCHANGED <<clientVars, simCalls, simOpts, netVars, argVars, versionedTransaction,
                 signature, status, i, rawTx, signatureStatus,
                 sent, nPolls, nReads, firstTargetPoll, walletCalls, stall>>

\* lines 790-805: spam mode pre-check.
sendAndConfirmTransaction_precheck(s) ==
  /\ op[s] = "sendAndConfirmTransaction" /\ pc[s] = "precheck"
  /\ Logged(s, "simulateTransaction", "primary")
  /\ Passed(s, sendAndConfirmTransaction_simulateOpts(s))
  /\ \/ Simulated(s, SimThrew) /\ Catch(s, RpcError)
     \/ \E r \in SimResponses :
          /\ Fits(versionedTransaction[s])
          /\ Simulated(s, r)
          /\ IF r.err # "null"
             THEN Catch(s, SendTransactionError("err", OrEmpty(r.logs)))
             ELSE /\ pc' = [pc EXCEPT ![s] = "send"]
                  /\ UNCHANGED <<result, error>>
  /\ UNCHANGED <<clientVars, netVars, argVars, blockhash, lastValidBlockHeight,
                 versionedTransaction, signature, status, i, rawTx, signatureStatus,
                 sent, nPolls, nReads, firstTargetPoll, walletCalls, stall>>

\* lines 807-815: spam mode send.
sendAndConfirmTransaction_send(s) ==
  /\ op[s] = "sendAndConfirmTransaction" /\ pc[s] = "send"
  /\ stall[s] < MaxStall
  /\ stall' = [stall EXCEPT ![s] = @ + 1]
  /\ sent' = [sent EXCEPT ![s] =
       Append(@, [to |-> sendConnection,
                  bytes |-> Serialize(sendAndConfirmTransaction_sendArg(s))])]
  /\ \/ /\ \E e \in SendErrors : Catch(s, e)
        /\ UNCHANGED <<ledger, signature, i>>
     \/ /\ Fits(sendAndConfirmTransaction_sendArg(s))
        /\ ledger' = NodeReceive(ledger, sendAndConfirmTransaction_sendArg(s))
        /\ signature' = [signature EXCEPT ![s] = Sig(sendAndConfirmTransaction_sendArg(s))]
        /\ i' = [i EXCEPT ![s] = 0]
        /\ pc' = [pc EXCEPT ![s] = "poll"]
        /\ UNCHANGED <<result, error>>
  /\ UNCHANGED <<clientVars, simCalls, simOpts, blockHeight, argVars, blockhash, lastValidBlockHeight,
                 versionedTransaction, status, rawTx, signatureStatus,
                 rpcLog, nFetch, nPolls, nReads, firstTargetPoll, walletCalls>>

\* lines 817-828: one status poll of the sub-loop (and the sleep after it).
sendAndConfirmTransaction_getSignatureStatus(s) ==
  /\ op[s] = "sendAndConfirmTransaction" /\ pc[s] = "poll"
  /\ Logged(s, "getSignatureStatus", "primary")
  /\ nPolls' = [nPolls EXCEPT ![s] = @ + 1]
  /\ \/ /\ Catch(s, RpcError)
        /\ UNCHANGED <<status, i, firstTargetPoll>>
     \/ /\ UNCHANGED <<result, error>>
        /\ IF sendAndConfirmTransaction_target(StatusOf(signature[s]))
           THEN /\ status' = [status EXCEPT ![s] = "processed"]
                /\ firstTargetPoll' = [firstTargetPoll EXCEPT ![s] =
                     IF @ = 0 THEN nPolls[s] + 1 ELSE @]
                /\ pc' = [pc EXCEPT ![s] = "height"]
                /\ UNCHANGED i
           ELSE /\ i' = [i EXCEPT ![s] = @ + 1]
                /\ pc' = [pc EXCEPT ![s] =
                     IF i[s] + 1 < PollAttempts THEN "poll" ELSE "height"]
                /\ UNCHANGED <<status, firstTargetPoll>>
  /\ UNCHANGED <<clientVars, simCalls, simOpts, netVars, argVars, blockhash, lastValidBlockHeight,
                 versionedTransaction, signature, rawTx, signatureStatus,
                 sent, nReads, walletCalls, stall>>

\* Mutant: the status test comes before the expiry test.
sendAndConfirmTransaction_getBlockHeight_statusFirst(s) ==
  /\ op[s] = "sendAndConfirmTransaction" /\ pc[s] = "height"
  /\ Logged(s, "getBlockHeight", "primary")
  /\ nReads' = [nReads EXCEPT ![s] = @ + 1]
  /\ \/ Catch(s, RpcError)
     \/ IF sendAndConfirmTransaction_confirmed(status[s])
        THEN Finish(s, Returned(signature[s]))
        ELSE IF sendAndConfirmTransaction_expired(blockHeight, lastValidBlockHeight[s])
             THEN Catch(s, ProcessTransactionError("not confirmed in time", "TimeoutError"))
             ELSE /\ pc' = [pc EXCEPT ![s] = "send"]
                  /\ UNCHANGED <<result, error>>
  /\ UNCHANGED <<clientVars, simCalls, simOpts, netVars, argVars, blockhash,
                 lastValidBlockHeight, versionedTransaction, signature, status, i,
                 rawTx, signatureStatus, sent, nPolls, firstTargetPoll, walletCalls,
                 stall>>

\* lines 830-841, 862: expiry check, then loop exit or next iteration.
sendAndConfirmTransaction_getBlockHeight(s) ==
  /\ op[s] = "sendAndConfirmTransaction" /\ pc[s] = "height"
  /\ Logged(s, "getBlockHeight", "primary")
  /\ nReads' = [nReads EXCEPT ![s] = @ + 1]
  /\ \/ Catch(s, RpcError)
     \/ IF sendAndConfirmTransaction_expired(blockHeight, lastValidBlockHeight[s])
        THEN Catch(s, ProcessTransactionError("not confirmed in time", "TimeoutError"))
        ELSE IF sendAndConfirmTransaction_confirmed(status[s])
             THEN Finish(s, Returned(signature[s]))
             ELSE /\ pc' = [pc EXCEPT ![s] = "send"]
                  /\ UNCHANGED <<result, error>>
  /\ UNCHANGED <<clientVars, simCalls, simOpts, netVars, argVars, blockhash, lastValidBlockHeight,
                 versionedTransaction, signature, status, i, rawTx, signatureStatus,
                 sent, nPolls, firstTargetPoll, walletCalls, stall>>

\* lines 845-849: single-shot send.
sendAndConfirmTransaction_sendOnce(s) ==
  /\ op[s] = "sendAndConfirmTransaction" /\ pc[s] = "sendOnce"
  /\ sent' = [sent EXCEPT ![s] =
       Append(@, [to |-> "primary", bytes |-> Serialize(versionedTransaction[s])])]
  /\ \/ /\ \E e \in SendErrors : Catch(s, e)
        /\ UNCHANGED <<ledger, signature>>
     \/ /\ Fits(versionedTransaction[s])
        /\ ledger' = NodeReceive(ledger, versionedTransaction[s])
        /\ signature' = [signature EXCEPT ![s] = Sig(versionedTransaction[s])]
        /\ pc' = [pc EXCEPT ![s] = "confirm"]
        /\ UNCHANGED <<result, error>>
  /\ UNCHANGED <<clientVars, simCalls, simOpts, blockHeight, argVars, blockhash, lastValidBlockHeight,
                 versionedTransaction, status, i, rawTx, signatureStatus,
                 rpcLog, nFetch, nPolls, nReads, firstTargetPoll, walletCalls, stall>>

\* lines 852-862: connection.confirmTransaction(..., 'processed').
sendAndConfirmTransaction_confirmTransaction(s) ==
  /\ op[s] = "sendAndConfirmTransaction" /\ pc[s] = "confirm"
  /\ Logged(s, "confirmTransaction", "primary")
  /\ \/ Catch(s, RpcError)
     \/ /\ Rank(StatusOf(signature[s])) >= Rank("processed")
        /\ Finish(s, Returned(signature[s]))
     \/ /\ blockHeight > lastValidBlockHeight[s]
        /\ Catch(s, [cls |-> "Error", message |-> "block height exceeded",
                               logs |-> "undefined"])
  /\ UNCHANGED <<clientVars, simCalls, simOpts, netVars, argVars, blockhash, lastValidBlockHeight,
                 versionedTransaction, signature, status, i, rawTx, signatureStatus,
                 sent, nPolls, nReads, firstTargetPoll, walletCalls, stall>>

sendAndConfirmTransaction(s) ==
  \/ sendAndConfirmTransaction_getLatestBlockhashAndContext(s)
  \/ sendAndConfirmTransaction_precheck(s)
  \/ sendAndConfirmTransaction_send(s)
  \/ sendAndConfirmTransaction_getSignatureStatus(s)
  \/ sendAndConfirmTransaction_getBlockHeight(s)
  \/ sendAndConfirmTransaction_sendOnce(s)
  \/ sendAndConfirmTransaction_confirmTransaction(s)

\* --------------------------------------------- sendAndConfirmTrancationJito
\* bs58.encode(rawTx) and what the relay decodes from it.
bs58encode(bytes) == <<"bs58", bytes>>
bs58decode(text) == text[2]

\* An error this method lets escape as it is (no catch handler around it).
Raw(message) == Thrown("Error", message, "undefined")

\* line 1046: throw Error(`Transaction ${txSig} was not confirmed`)
NotConfirmed(txSig) == [Raw("was not confirmed") EXCEPT !.value = txSig]

\* Mutant: only 'finalized' ends the loop.
sendAndConfirmTrancationJito_confirmed_finalized(st) == st = "finalized"

\* lines 1037-1041: confirmationStatus is 'processed', 'confirmed' or
\* 'finalized'
sendAndConfirmTrancationJito_confirmed(st) ==
  st \in {"processed", "confirmed", "finalized"}

\* lines 986-987: serialize, blockhash fetch.
sendAndConfirmTrancationJito_getLatestBlockhash(s) ==
  /\ op[s] = "sendAndConfirmTrancationJito" /\ pc[s] = "start"
  /\ Logged(s, "getLatestBlockhash", "primary")
  /\ rawTx' = [rawTx EXCEPT ![s] = Serialize(versionedTransaction[s])]
  /\ \/ /\ Finish(s, Raw("rpc"))
        /\ UNCHANGED <<blockhash, lastValidBlockHeight>>
     \/ /\ blockhash' = [blockhash EXCEPT ![s] = blockHeight]
        /\ lastValidBlockHeight' =
             [lastValidBlockHeight EXCEPT ![s] = blockHeight + ValidWindow]
        /\ pc' = [pc EXCEPT ![s] = "relay"]
        /\ UNCHANGED <<result, error>>
  /\ UNCHANGED <<clientVars, simCalls, simOpts, netVars, argVars, versionedTransaction,
                 signature, status, i, signatureStatus,
                 sent, nPolls, nReads, firstTargetPoll, walletCalls, stall>>

\* lines 989-1015: POST to the relay, which answers with result (the
\* signature of the transaction it accepted, or nothing on a JSON-RPC error).
sendAndConfirmTrancationJito_post(s) ==
  /\ op[s] = "sendAndConfirmTrancationJito" /\ pc[s] = "relay"
  /\ sent' = [sent EXCEPT ![s] =
       Append(@, [to |-> "relay", bytes |-> bs58decode(bs58encode(rawTx[s]))])]
  /\ \/ /\ Finish(s, Raw("Jito Bundle Error: cannot send."))
        /\ UNCHANGED <<ledger, signature>>
     \/ /\ signature' = [signature EXCEPT ![s] = <<>>]
        /\ pc' = [pc EXCEPT ![s] = "height0"]
        /\ UNCHANGED <<ledger, result, error>>
     \/ /\ Fits(versionedTransaction[s])
        /\ ledger' = NodeReceive(ledger, versionedTransaction[s])
        /\ signature' = [signature EXCEPT ![s] = Sig(versionedTransaction[s])]
        /\ pc' = [pc EXCEPT ![s] = "height0"]
        /\ UNCHANGED <<result, error>>
  /\ UNCHANGED <<clientVars, simCalls, simOpts, blockHeight, argVars, blockhash, lastValidBlockHeight,
                 versionedTransaction, status, i, rawTx, signatureStatus,
                 rpcLog, nFetch, nPolls, nReads, firstTargetPoll, walletCalls, stall>>

\* lines 1017-1021, 1046: first block-height read and loop condition.
sendAndConfirmTrancationJito_getBlockHeight0(s) ==
  /\ op[s] = "sendAndConfirmTrancationJito" /\ pc[s] = "height0"
  /\ Logged(s, "getBlockHeight", "primary")
  /\ nReads' = [nReads EXCEPT ![s] = @ + 1]
  /\ \/ Finish(s, Raw("rpc"))
     \/ IF blockHeight < lastValidBlockHeight[s]
        THEN /\ pc' = [pc EXCEPT ![s] = "send"]
             /\ UNCHANGED <<result, error>>
        ELSE Finish(s, NotConfirmed(signature[s]))
  /\ UNCHANGED <<clientVars, simCalls, simOpts, netVars, argVars, blockhash, lastValidBlockHeight,
                 versionedTransaction, signature, status, i, rawTx, signatureStatus,
                 sent, nPolls, firstTargetPoll, walletCalls, stall>>

\* lines 1023-1028: resend of the raw bytes to the primary network.
sendAndConfirmTrancationJito_sendRawTransaction(s) ==
  /\ op[s] = "sendAndConfirmTrancationJito" /\ pc[s] = "send"
  /\ stall[s] < MaxStall
  /\ stall' = [stall EXCEPT ![s] = @ + 1]
  /\ sent' = [sent EXCEPT ![s] = Append(@, [to |-> "primary", bytes |-> rawTx[s]])]
  /\ \/ /\ \E e \in SendErrors : Finish(s, Raw(e.message))
        /\ UNCHANGED ledger
     \/ /\ Fits(versionedTransaction[s])
        /\ ledger' = NodeReceive(ledger, versionedTransaction[s])
        /\ pc' = [pc EXCEPT ![s] = "poll"]
        /\ UNCHANGED <<result, error>>
  /\ UNCHANGED <<clientVars, simCalls, simOpts, blockHeight, argVars, blockhash, lastValidBlockHeight,
                 versionedTransaction, signature, status, i, rawTx, signatureStatus,
                 rpcLog, nFetch, nPolls, nReads, firstTargetPoll, walletCalls>>

\* lines 1030-1031: status poll keyed by the relay's identifier.
sendAndConfirmTrancationJito_getSignatureStatus(s) ==
  /\ op[s] = "sendAndConfirmTrancationJito" /\ pc[s] = "poll"
  /\ Logged(s, "getSignatureStatus", "primary")
  /\ nPolls' = [nPolls EXCEPT ![s] = @ + 1]
  /\ \/ /\ Finish(s, Raw("rpc"))
        /\ UNCHANGED signatureStatus
     \/ /\ signatureStatus' = [signatureStatus EXCEPT ![s] = StatusOf(signature[s])]
        /\ pc' = [pc EXCEPT ![s] = "height"]
        /\ UNCHANGED <<result, error>>
  /\ UNCHANGED <<clientVars, simCalls, simOpts, netVars, argVars, blockhash, lastValidBlockHeight,
                 versionedTransaction, signature, status, i, rawTx,
                 sent, nReads, firstTargetPoll, walletCalls, stall>>

\* lines 1033-1046, 1021: block-height read, status test, loop condition.
sendAndConfirmTrancationJito_getBlockHeight(s) ==
  /\ op[s] = "sendAndConfirmTrancationJito" /\ pc[s] = "height"
  /\ Logged(s, "getBlockHeight", "primary")
  /\ nReads' = [nReads EXCEPT ![s] = @ + 1]
  /\ \/ Finish(s, Raw("rpc"))
     \/ IF sendAndConfirmTrancationJito_confirmed(signatureStatus[s])
        THEN Finish(s, Returned(signature[s]))
        ELSE IF blockHeight < lastValidBlockHeight[s]
             THEN /\ pc' = [pc EXCEPT ![s] = "send"]
                  /\ UNCHANGED <<result, error>>
             ELSE Finish(s, NotConfirmed(signature[s]))
  /\ UNCHANGED <<clientVars, simCalls, simOpts, netVars, argVars, blockhash, lastValidBlockHeight,
                 versionedTransaction, signature, status, i, rawTx, signatureStatus,
                 sent, nPolls, firstTargetPoll, walletCalls, stall>>

sendAndConfirmTrancationJito(s) ==
  \/ sendAndConfirmTrancationJito_getLatestBlockhash(s)
  \/ sendAndConfirmTrancationJito_post(s)
  \/ sendAndConfirmTrancationJito_getBlockHeight0(s)
  \/ sendAndConfirmTrancationJito_sendRawTransaction(s)
  \/ sendAndConfirmTrancationJito_getSignatureStatus(s)
  \/ sendAndConfirmTrancationJito_getBlockHeight(s)

\* --------------------------------------------------------- signTransaction
\* Mutant: a wallet failure is reported like a failure to build.
signTransaction_signError_building(message) ==
  Thrown("TransactionBuildingError", message, "undefined")

\* lines 746-751: what the catch of the wallet call throws.
signTransaction_signError(message) ==
  Thrown("FallthroughError", message, "undefined")

\* lines 714-741: blockhash fetch, compile, local signers.
signTransaction_build(s) ==
  /\ op[s] = "signTransaction" /\ pc[s] = "start"
  /\ Logged(s, "getLatestBlockhashAndContext", "primary")
  /\ \/ /\ Finish(s, Thrown("TransactionBuildingError", "rpc", "undefined"))
        /\ UNCHANGED <<blockhash, versionedTransaction>>
     \/ \E signers \in {"absent", "present", "missing"} :
          /\ blockhash' = [blockhash EXCEPT ![s] = blockHeight]
          /\ IF signers = "missing"
             THEN /\ Finish(s, Thrown("TransactionBuildingError", "signer", "undefined"))
                  /\ versionedTransaction' = [versionedTransaction EXCEPT ![s] =
                       Compile(transaction[s], blockHeight)]
             ELSE /\ versionedTransaction' = [versionedTransaction EXCEPT ![s] =
                       IF signers = "present"
                       THEN SignWith(Compile(transaction[s], blockHeight), "local")
                       ELSE Compile(transaction[s], blockHeight)]
                  /\ pc' = [pc EXCEPT ![s] = "walletSign"]
                  /\ UNCHANGED <<result, error>>
  /\ UNCHANGED <<clientVars, netVars, argVars, lastValidBlockHeight, signature,
                 status, i, rawTx, signatureStatus, sent, simCalls, simOpts, nPolls,
                 nReads, firstTargetPoll, walletCalls, stall>>

\* lines 743-752: the wallet signs; the signed transaction is returned.
signTransaction_walletSign(s) ==
  /\ op[s] = "signTransaction" /\ pc[s] = "walletSign"
  /\ walletCalls' = [walletCalls EXCEPT ![s] = @ + 1]
  /\ \/ /\ Finish(s, signTransaction_signError("wallet"))
        /\ UNCHANGED versionedTransaction
     \/ /\ versionedTransaction' = [versionedTransaction EXCEPT ![s] = SignWith(@, "wallet")]
        /\ Finish(s, Returned(Serialize(SignWith(versionedTransaction[s], "wallet"))))
  /\ UNCHANGED <<clientVars, netVars, argVars, blockhash, lastValidBlockHeight,
                 signature, status, i, rawTx, signatureStatus, sent, rpcLog, nFetch,
                 simCalls, simOpts, nPolls, nReads, firstTargetPoll, stall>>

signTransaction(s) ==
  \/ signTransaction_build(s)
  \/ signTransaction_walletSign(s)

\* ----------------------------------------------------- simulateTransaction
\* lines 1057-1076: blockhash fetch and compile.
simulateTransaction_build(s) ==
  /\ op[s] = "simulateTransaction" /\ pc[s] = "start"
  /\ Logged(s, "getLatestBlockhashAndContext", "primary")
  /\ \/ /\ Finish(s, Thrown("TransactionBuildingError", "rpc", "undefined"))
        /\ UNCHANGED <<blockhash, versionedTransaction>>
     \/ /\ blockhash' = [blockhash EXCEPT ![s] = blockHeight]
        /\ versionedTransaction' = [versionedTransaction EXCEPT ![s] =
             Compile(transaction[s], blockHeight)]
        /\ pc' = [pc EXCEPT ![s] = "simulate"]
        /\ UNCHANGED <<result, error>>
  /\ UNCHANGED <<clientVars, netVars, argVars, lastValidBlockHeight, signature,
                 status, i, rawTx, signatureStatus, sent, simCalls, simOpts, nPolls,
                 nReads, firstTargetPoll, walletCalls, stall>>

\* lines 1078-1089: simulate; a reported err is thrown inside the try and
\* rethrown by its catch as new Error(error), like a failure of the call.
simulateTransaction_simulate(s) ==
  /\ op[s] = "simulateTransaction" /\ pc[s] = "simulate"
  /\ Logged(s, "simulateTransaction", "primary")
  /\ Passed(s, {})
  /\ \/ Simulated(s, SimThrew) /\ Finish(s, Raw("Error: rpc"))
     \/ \E r \in SimResponses :
          /\ Fits(versionedTransaction[s])
          /\ Simulated(s, r)
          /\ IF r.err # "null"
             THEN Finish(s, Raw("Error: err"))
             ELSE Finish(s, Returned(<<"accounts">>))
  /\ UNCHANGED <<clientVars, netVars, argVars, blockhash, lastValidBlockHeight,
                 versionedTransaction, signature, status, i, rawTx,
                 signatureStatus, sent, nPolls, nReads, firstTargetPoll,
                 walletCalls, stall>>

simulateTransaction(s) ==
  \/ simulateTransaction_build(s)
  \/ simulateTransaction_simulate(s)

\* ----------------------------------------------------- signTranscationJito
\* Mutant: both comparisons of the size test are strict.
signTranscationJito_tooBig_strict(totalSize, totalKeys) ==
  totalSize > MaxTotalSize \/ totalKeys > MaxTotalKeys

\* line 938: totalSize > 1232 || totalKeys >= 64
signTranscationJito_tooBig(totalSize, totalKeys) ==
  totalSize > MaxTotalSize \/ totalKeys >= MaxTotalKeys

\* return false
False == <<FALSE>>

\* lines 896-916: tx.instructions.unshift(setComputeUnitPrice) when a priority
\* fee is given, then tx.instructions.push(transfer to the tip account): the
\* caller's list itself is changed.
signTranscationJito_instructions(ixs, fee) ==
  (IF fee # 0 THEN <<"setComputeUnitPrice">> ELSE <<>>) \o ixs \o <<"tip">>

\* lines 892-941: tip test, instructions added, blockhash fetch (outside any
\* try), compile, size test.
signTranscationJito_build(s) ==
  /\ op[s] = "signTranscationJito" /\ pc[s] = "start"
  /\ IF jitoTip[s] = 0
     THEN /\ Finish(s, Raw("Jito bundle tip has not been set."))
          /\ UNCHANGED <<transaction, rpcLog, nFetch, blockhash, versionedTransaction>>
     ELSE /\ transaction' = [transaction EXCEPT ![s].instructions =
               signTranscationJito_instructions(@, priorityFee[s])]
          /\ Logged(s, "getLatestBlockhashAndContext", "primary")
          /\ \/ /\ Finish(s, Raw("rpc"))
                /\ UNCHANGED <<blockhash, versionedTransaction>>
             \/ /\ blockhash' = [blockhash EXCEPT ![s] = blockHeight]
                /\ versionedTransaction' = [versionedTransaction EXCEPT ![s] =
                     Compile(transaction'[s], blockHeight)]
                /\ IF signTranscationJito_tooBig(transaction[s].size, transaction[s].keys)
                   THEN Finish(s, Returned(False))
                   ELSE /\ pc' = [pc EXCEPT ![s] = "simulate"]
                        /\ UNCHANGED <<result, error>>
  /\ UNCHANGED <<clientVars, netVars, op, dryRun, jitoTip, priorityFee, opts,
                 lastValidBlockHeight, signature,
                 status, i, rawTx, signatureStatus, sent, simCalls, simOpts, nPolls,
                 nReads, firstTargetPoll, walletCalls, stall>>

\* Mutant: a simulation that reports an error ends the call unsigned.
signTranscationJito_afterSimulate_gated(r) ==
  IF r.err # "null" THEN "done" ELSE "walletSign"

\* lines 945-946, 966: the response is printed (value.logs) and nothing of it
\* is tested; the wallet call follows.
signTranscationJito_afterSimulate(r) == "walletSign"

\* lines 944-963: simulate; the response is printed, a rejected call is
\* classified by the catch.
signTranscationJito_simulate(s) ==
  /\ op[s] = "signTranscationJito" /\ pc[s] = "simulate"
  /\ Logged(s, "simulateTransaction", "primary")
  /\ Passed(s, {minContextSlot(s)})
  /\ \/ /\ Simulated(s, SimThrew)
        /\ \E e \in SendErrors : Catch(s, e)
     \/ \E r \in SimResponses :
          /\ Fits(versionedTransaction[s])
          /\ Simulated(s, r)
          /\ pc' = [pc EXCEPT ![s] = signTranscationJito_afterSimulate(r)]
          /\ UNCHANGED <<result, error>>
  /\ UNCHANGED <<clientVars, netVars, argVars, blockhash, lastValidBlockHeight,
                 versionedTransaction, signature, status, i, rawTx,
                 signatureStatus, sent, nPolls, nReads, firstTargetPoll,
                 walletCalls, stall>>

\* lines 966-979: the wallet signs; the signed transaction is returned.
signTranscationJito_walletSign(s) ==
  /\ op[s] = "signTranscationJito" /\ pc[s] = "walletSign"
  /\ walletCalls' = [walletCalls EXCEPT ![s] = @ + 1]
  /\ \/ /\ Finish(s, Thrown("FallthroughError", "wallet", "undefined"))
        /\ UNCHANGED versionedTransaction
     \/ /\ versionedTransaction' = [versionedTransaction EXCEPT ![s] = SignWith(@, "wallet")]
        /\ Finish(s, Returned(Serialize(SignWith(versionedTransaction[s], "wallet"))))
  /\ UNCHANGED <<clientVars, netVars, argVars, blockhash, lastValidBlockHeight,
                 signature, status, i, rawTx, signatureStatus, sent, rpcLog, nFetch,
                 simCalls, simOpts, nPolls, nReads, firstTargetPoll, stall>>

signTranscationJito(s) ==
  \/ signTranscationJito_build(s)
  \/ signTranscationJito_simulate(s)
  \/ signTranscationJito_walletSign(s)

\* ------------------------------------------------------------------- Next
Next ==
  \/ Tick
  \/ \E g \in DOMAIN ledger : NodeAdvance(g)
  \/ \E s \in Subs : processTransaction(s)
  \/ \E s \in Subs : sendAndConfirmTransaction(s)
  \/ \E s \in Subs : sendAndConfirmTrancationJito(s)
  \/ \E s \in Subs : signTransaction(s)
  \/ \E s \in Subs : simulateTransaction(s)
  \/ \E s \in Subs : signTranscationJito(s)

Spec == Init /\ [][Next]_vars

\* The same, with transactions whose execution fails on chain.  No method reads
\* the error of a status (see StatusOf), so Spec leaves such transactions out.
FailingNext ==
  \/ Next
  \/ \E g \in DOMAIN ledger : NodeFail(g)

FailingSpec == Init /\ [][FailingNext]_vars

\* Two submissions in flight on one client: processTransaction of one
\* transaction and sendAndConfirmTransaction of another, each sending once, their
\* steps interleaved in every order at their awaits.
ConcurrentInit ==
  /\ blockHeight = 0
  /\ ledger = <<>>
  /\ spamSendTx = FALSE /\ skipPreflightInSpam = TRUE
  /\ sendEndpoint = FALSE /\ isReadOnly = FALSE
  /\ op = [s \in Subs |->
            IF s = 1 THEN "processTransaction" ELSE "sendAndConfirmTransaction"]
  /\ transaction = [s \in Subs |->
            IF s = 1 THEN LegacyTx(1, Fitting[1], Fitting[2])
            ELSE VersionedTx(2, {"wallet"}, Fitting[1], Fitting[2])]
  /\ versionedTransaction = [s \in Subs |->
            IF s = 1 THEN NoTx ELSE VersionedTx(2, {"wallet"}, Fitting[1], Fitting[2])]
  /\ dryRun = [s \in Subs |-> FALSE]
  /\ jitoTip = [s \in Subs |-> 0]
  /\ priorityFee = [s \in Subs |-> 0]
  /\ opts = [s \in Subs |-> "undefined"]
  /\ pc = [s \in Subs |-> "start"]
  /\ blockhash = [s \in Subs |-> -1]
  /\ lastValidBlockHeight = [s \in Subs |-> -1]
  /\ signature = [s \in Subs |-> <<>>]
  /\ status = [s \in Subs |-> "pending"]
  /\ i = [s \in Subs |-> 0]
  /\ rawTx = [s \in Subs |-> <<>>]
  /\ signatureStatus = [s \in Subs |-> "null"]
  /\ result = [s \in Subs |-> Pending]
  /\ error = [s \in Subs |-> NoError]
  /\ sent = [s \in Subs |-> <<>>]
  /\ rpcLog = [s \in Subs |-> {}]
  /\ nFetch = [s \in Subs |-> 0]
  /\ simCalls = [s \in Subs |-> <<>>]
  /\ simOpts = [s \in Subs |-> <<>>]
  /\ nPolls = [s \in Subs |-> 0]
  /\ nReads = [s \in Subs |-> 0]
  /\ firstTargetPoll = [s \in Subs |-> 0]
  /\ walletCalls = [s \in Subs |-> 0]
  /\ stall = [s \in Subs |-> 0]

\* The steps such calls take.
ConcurrentNext ==
  \/ Tick
  \/ \E g \in DOMAIN ledger : NodeAdvance(g)
  \/ \E s \in Subs :
       \/ processTransaction_build(s)
       \/ processTransaction_walletSign(s)
       \/ processTransaction_sendOnce(s)
       \/ processTransaction_confirmTransaction(s)
       \/ sendAndConfirmTransaction_getLatestBlockhashAndContext(s)
       \/ sendAndConfirmTransaction_sendOnce(s)
       \/ sendAndConfirmTransaction_confirmTransaction(s)

ConcurrentSpec == ConcurrentInit /\ [][ConcurrentNext]_vars

\* Every RPC and wallet call of a submission returns (or throws), and the
\* network keeps producing blocks; the node need never process anything.
LiveSpec ==
  /\ Spec
  /\ WF_vars(Tick)
  /\ \A s \in Subs : /\ WF_vars(processTransaction(s))
                      /\ WF_vars(sendAndConfirmTransaction(s))
                      /\ WF_vars(sendAndConfirmTrancationJito(s))
                      /\ WF_vars(signTransaction(s))
                      /\ WF_vars(simulateTransaction(s))
                      /\ WF_vars(signTranscationJito(s))

\* ------------------------------------------------------------- properties
SpamCall(s) ==
  /\ op[s] \in {"processTransaction", "sendAndConfirmTransaction"}
  /\ spamSendTx
  /\ ~(op[s] = "processTransaction" /\ (dryRun[s] \/ isReadOnly))

Target(s) ==
  IF op[s] = "processTransaction" THEN {"finalized"}
  ELSE {"processed", "confirmed", "finalized"}

\* C1: in spam mode, once the network's block height is bound to pass
\* lastValidBlockHeight, the send/poll loop ends, whatever the polls report;
\* the block-height read that finds the height above lastValidBlockHeight ends
\* the call in that very step, and with it all sending.
C1_SpamLoopTerminates ==
  /\ \A s \in Subs :
        (SpamCall(s) /\ pc[s] \in {"send", "poll", "height"}
           /\ lastValidBlockHeight[s] < MaxHeight) ~> (pc[s] = "done")
  /\ [][\A s \in Subs :
          (SpamCall(s) /\ pc[s] = "height" /\ nReads'[s] = nReads[s] + 1
             /\ blockHeight > lastValidBlockHeight[s])
          => (pc'[s] = "done" /\ sent'[s] = sent[s])]_vars
  /\ [][\A s \in Subs : pc[s] = "done" => (pc'[s] = "done" /\ sent'[s] = sent[s])]_vars

\* Reached: a spam-mode call that never saw its target, resent, and was ended
\* by the block height.
C1_Witness ==
  \E s \in Subs :
    /\ SpamCall(s) /\ pc[s] = "done"
    /\ firstTargetPoll[s] = 0 /\ Len(sent[s]) >= 2
    /\ result[s].description = "not confirmed in time"

\* C2: a spam-mode call that ends because the block height read exceeds
\* lastValidBlockHeight fails with kind TimeoutError.
C2_ExpiryIsTimeoutError ==
  \A s \in Subs :
    (SpamCall(s) /\ result[s].description = "not confirmed in time")
      => result[s].type = "TimeoutError"

\* C3: a spam-mode call returns a signature only after one of its own status
\* polls reported the call site's target, and the signature it returns is then
\* at that commitment on the node: finalized for processTransaction, processed
\* or better for sendAndConfirmTransaction.
C3_ReturnOnlyOnTarget ==
  \A s \in Subs :
    (SpamCall(s) /\ result[s].kind = "returned")
      => /\ firstTargetPoll[s] > 0
         /\ result[s].value = signature[s]
         /\ StatusOf(result[s].value) \in Target(s)

\* Reached: processTransaction returns after polls that saw less than
\* 'finalized' and a later poll that saw 'finalized'.
C3_Witness ==
  \E s \in Subs :
    /\ SpamCall(s) /\ op[s] = "processTransaction"
    /\ result[s].kind = "returned" /\ firstTargetPoll[s] >= 2

\* C4: when the k-th poll after the first send (1 <= k <= 5) is the first to
\* report the target, the call has sent once and polled k times when it reaches
\* the block-height read, and if that read is not above lastValidBlockHeight
\* the call returns the signature without another send or poll.
C4_FirstIterationSuccess ==
  /\ [](\A s \in Subs :
          (SpamCall(s) /\ firstTargetPoll[s] \in 1..PollAttempts
             /\ pc[s] \in {"height", "done"})
          => (Len(sent[s]) = 1 /\ nPolls[s] = firstTargetPoll[s]))
  /\ [][\A s \in Subs :
          (SpamCall(s) /\ firstTargetPoll[s] \in 1..PollAttempts
             /\ pc[s] = "height" /\ nReads'[s] = nReads[s] + 1
             /\ blockHeight <= lastValidBlockHeight[s]
             /\ result'[s] # Classify(RpcError))
          => (pc'[s] = "done"
                /\ result'[s] = Returned(Sig(versionedTransaction[s])))]_vars

\* Reached: one send, four polls below the target, the fifth at the target,
\* success (target 'finalized').
C4_Witness ==
  \E s \in Subs :
    /\ SpamCall(s) /\ op[s] = "processTransaction"
    /\ result[s].kind = "returned"
    /\ firstTargetPoll[s] = PollAttempts /\ nPolls[s] = PollAttempts
    /\ Len(sent[s]) = 1

\* No poll has reported the target and no RPC call has failed.
NeverConfirmed(s) ==
  /\ SpamCall(s) /\ firstTargetPoll[s] = 0
  /\ pc[s] \in {"send", "poll", "height"}
       \/ (pc[s] = "done" /\ result[s].description = "not confirmed in time")

\* Sends, polls and block-height reads of a call whose polls never report the
\* target: one send, five polls, one read per iteration.
C5_Counting ==
  \A s \in Subs :
    NeverConfirmed(s) =>
      CASE pc[s] = "send" ->
             nPolls[s] = PollAttempts * Len(sent[s]) /\ nReads[s] = Len(sent[s])
        [] pc[s] = "poll" ->
             /\ nPolls[s] = PollAttempts * (Len(sent[s]) - 1) + i[s]
             /\ nReads[s] = Len(sent[s]) - 1
        [] pc[s] = "height" ->
             nPolls[s] = PollAttempts * Len(sent[s]) /\ nReads[s] = Len(sent[s]) - 1
        [] pc[s] = "done" ->
             nPolls[s] = PollAttempts * Len(sent[s]) /\ nReads[s] = Len(sent[s])

\* C5: against a network that never reports the target every iteration is one
\* send, five polls and one block-height read, and the call that the block
\* height ends after its third send ends in TimeoutError.
C5_ThreeSendsThenTimeout ==
  /\ C5_Counting
  /\ \A s \in Subs :
       (NeverConfirmed(s) /\ pc[s] = "done" /\ Len(sent[s]) = 3)
         => result[s].type = "TimeoutError"

\* C6: in every iteration the polls come before the block-height read; the
\* poll that reports the target leads straight to the block-height read; no
\* send follows a poll that reported the target; and a call returns only after
\* the block-height read of its last iteration.
C6_StatusBeforeExpiry ==
  /\ [](\A s \in Subs : SpamCall(s) =>
          /\ pc[s] = "poll" => nReads[s] = Len(sent[s]) - 1
          /\ pc[s] = "height" =>
               /\ nReads[s] = Len(sent[s]) - 1
               /\ status[s] # "pending" \/ i[s] = PollAttempts
          /\ result[s].kind = "returned" =>
               (status[s] # "pending" /\ nReads[s] = Len(sent[s])))
  /\ [][\A s \in Subs :
          (SpamCall(s) /\ status[s] = "pending" /\ status'[s] # "pending")
            => (pc'[s] = "height" /\ nReads'[s] = nReads[s])]_vars
  /\ [][\A s \in Subs :
          (SpamCall(s) /\ status[s] # "pending") => sent'[s] = sent[s]]_vars

\* Reached: the target was seen in a later iteration and the call returned
\* after that iteration's block-height read.
C6_Witness ==
  \E s \in Subs :
    /\ SpamCall(s) /\ op[s] = "sendAndConfirmTransaction"
    /\ result[s].kind = "returned"
    /\ Len(sent[s]) >= 2 /\ nReads[s] = Len(sent[s])

\* C7: all sends of one call carry the same bytes: same message, same
\* blockhash, same signatures.
C7_SameSignedBytes ==
  \A s \in Subs : \A j, k \in 1..Len(sent[s]) :
    sent[s][j].bytes = sent[s][k].bytes

\* Reached: a third send of a compiled transaction, at a block height above
\* the one at which its blockhash was fetched.
C7_Witness ==
  \E s \in Subs :
    /\ op[s] = "processTransaction" /\ transaction[s].kind = "legacy"
    /\ Len(sent[s]) >= 3
    /\ blockHeight > sent[s][1].bytes[2]

\* C8: at a node that deduplicates by signature every accepted resend is a
\* no-op: it leaves the node's state, hence what every later poll reports, and
\* the signature polled for as they were after the first send; the node holds
\* one transaction for the call, and a success returns the signature of the
\* first send.
C8_ResendIsNoOp ==
  /\ [][\A s \in Subs :
          (SpamCall(s) /\ Len(sent[s]) >= 1 /\ Len(sent'[s]) = Len(sent[s]) + 1
             /\ pc'[s] = "poll")
            => (ledger' = ledger /\ signature'[s] = signature[s])]_vars
  /\ [](\A s \in Subs : SpamCall(s) =>
          /\ Cardinality(DOMAIN ledger) <= 1
          /\ result[s].kind = "returned" =>
               result[s].value = <<sent[s][1].bytes[1], sent[s][1].bytes[2]>>)

\* Reached: a call that sent three times and then succeeded.
C8_Witness ==
  \E s \in Subs :
    /\ SpamCall(s) /\ op[s] = "sendAndConfirmTransaction"
    /\ Len(sent[s]) >= 3 /\ result[s].kind = "returned"

\* C9: in single-shot mode at most one send-transaction call is made, and
\* exactly one by the time the call confirms or ends after sending.
C9_SingleShotOneSend ==
  \A s \in Subs :
    (op[s] \in {"processTransaction", "sendAndConfirmTransaction"} /\ ~spamSendTx)
      => /\ Len(sent[s]) <= 1
         /\ pc[s] = "confirm" => Len(sent[s]) = 1
         /\ (pc[s] = "done" /\ signature[s] # <<>>) => Len(sent[s]) = 1

\* Reached: a single-shot call whose confirmation expired, after one send.
C9_Witness ==
  \E s \in Subs :
    /\ op[s] = "processTransaction" /\ ~spamSendTx
    /\ pc[s] = "done" /\ result[s].description = "block height exceeded"
    /\ Len(sent[s]) = 1

\* C10: with a send endpoint configured every send-transaction call goes to
\* it, in both modes, and every other RPC call goes to the primary connection.
C10_SendsGoToSendEndpoint ==
  \A s \in Subs :
    (op[s] \in {"processTransaction", "sendAndConfirmTransaction"} /\ sendEndpoint)
      => /\ \A j \in 1..Len(sent[s]) : sent[s][j].to = "send"
         /\ \A c \in rpcLog[s] : c[2] = "primary"

\* A call that runs the spam mode pre-check.
PrecheckCall(s) == SpamCall(s) /\ skipPreflightInSpam

\* C11: in spam mode with the pre-check on, a pre-check simulation that reports
\* an error means no send-transaction call is ever made and the caller gets a
\* SimulationError carrying the simulation's log lines.
C11_PrecheckErrorStopsSend ==
  \A s \in Subs :
    (PrecheckCall(s) /\ simCalls[s] # <<>> /\ simCalls[s][1].err = "err")
      => /\ sent[s] = <<>>
         /\ pc[s] = "done"
         /\ result[s].kind = "thrown" /\ result[s].type = "SimulationError"
         /\ result[s].logs = OrEmpty(simCalls[s][1].logs)

\* Reached: a pre-check of processTransaction failed with program log lines.
C11_Witness ==
  \E s \in Subs :
    /\ op[s] = "processTransaction" /\ PrecheckCall(s)
    /\ simCalls[s] = <<[err |-> "err", logs |-> "known"]>>
    /\ result[s].type = "SimulationError" /\ result[s].logs = "known"
    /\ sent[s] = <<>> /\ walletCalls[s] = 1

\* C12: what the catch handler throws is a function of the error it caught: a
\* SendTransactionError with logs becomes a SimulationError with those logs,
\* described by the parsed program error if there is one and by the raw
\* message otherwise; anything else becomes a FallthroughError with the raw
\* message.
C12_ClassificationByErrorAlone ==
  \A s \in Subs :
    error[s] # NoError
      => /\ pc[s] = "done" /\ result[s].kind = "thrown"
         /\ IF error[s].cls = "SendTransactionError" /\ error[s].logs # "undefined"
            THEN /\ result[s].type = "SimulationError"
                 /\ result[s].logs = error[s].logs
                 /\ result[s].description =
                      IF error[s].logs = "known" THEN "parsed" ELSE error[s].message
            ELSE /\ result[s].type = "FallthroughError"
                 /\ result[s].description = error[s].message
                 /\ result[s].logs = "undefined"

\* Reached: a simulation that failed without logs, caught as an error with an
\* empty list of logs.
C12_Witness ==
  \E s \in Subs :
    /\ error[s] = SendTransactionError("err", "empty")
    /\ result[s] = Thrown("SimulationError", "err", "empty")

\* The blockhash fetch of the call failed: the call is over and no blockhash
\* was ever stored.
FetchFailed(s) == pc[s] = "done" /\ blockhash[s] = -1

\* C13: a failed blockhash fetch ends processTransaction, signTransaction and
\* sendAndConfirmTransaction with a NetworkError, and nothing is signed,
\* simulated or sent.
C13_FetchFailureIsNetworkError ==
  \A s \in Subs :
    (op[s] \in {"processTransaction", "signTransaction", "sendAndConfirmTransaction"}
     /\ FetchFailed(s))
      => /\ result[s].kind = "thrown" /\ result[s].type = "NetworkError"
         /\ walletCalls[s] = 0 /\ simCalls[s] = <<>> /\ sent[s] = <<>>

\* Applying the local signers failed: the call ended by throwing with the
\* message of versionedTransaction.sign.
SignersFailed(s) ==
  /\ pc[s] = "done" /\ result[s].kind = "thrown"
  /\ result[s].description = "signer"

\* The wallet's signTransaction failed: it was called and the call ended
\* without the wallet's signature on the transaction.
WalletFailed(s) ==
  /\ pc[s] = "done" /\ walletCalls[s] = 1
  /\ "wallet" \notin versionedTransaction[s].sigs

\* C14: in processTransaction and signTransaction a failure of the local
\* signers gives TransactionBuildingError without any wallet call, a failure
\* of the wallet gives FallthroughError, and neither is followed by a send.
C14_SigningFailures ==
  \A s \in Subs :
    op[s] \in {"processTransaction", "signTransaction"}
      => /\ SignersFailed(s)
              => /\ result[s].type = "TransactionBuildingError"
                 /\ walletCalls[s] = 0 /\ sent[s] = <<>>
         /\ WalletFailed(s)
              => /\ result[s].kind = "thrown"
                 /\ result[s].type = "FallthroughError"
                 /\ sent[s] = <<>>

\* Reached: signTransaction ended by a wallet failure after the local signers
\* had signed.
C14_Witness ==
  \E s \in Subs :
    /\ op[s] = "signTransaction" /\ WalletFailed(s)
    /\ versionedTransaction[s].sigs = {"local"}
    /\ result[s].type = "FallthroughError"

\* A call that only simulates.
SimulateOnlyCall(s) ==
  \/ op[s] = "processTransaction" /\ (dryRun[s] \/ isReadOnly)
  \/ op[s] = "simulateTransaction"

\* C15: a dry-run or read-only processTransaction, and simulateTransaction,
\* never send, never call the wallet, and make no network call besides the
\* blockhash fetch and one simulation.
C15_SimulateOnlyNeverWrites ==
  \A s \in Subs :
    SimulateOnlyCall(s)
      => /\ sent[s] = <<>> /\ walletCalls[s] = 0 /\ ledger = <<>>
         /\ rpcLog[s] \subseteq {<<"getLatestBlockhashAndContext", "primary">>,
                                 <<"simulateTransaction", "primary">>}
         /\ Len(simCalls[s]) <= 1

\* Reached: a read-only client's processTransaction (dryRun not set) returned
\* after its simulation.
C15_Witness ==
  \E s \in Subs :
    /\ op[s] = "processTransaction" /\ isReadOnly /\ ~dryRun[s]
    /\ pc[s] = "done" /\ result[s].kind = "returned"
    /\ Len(simCalls[s]) = 1 /\ sent[s] = <<>> /\ walletCalls[s] = 0

\* C16: simulateTransaction returns normally when the simulation completed
\* with an error reported; only a failure of the call itself is thrown.
C16_SimulationErrorIsAResult ==
  \A s \in Subs :
    (op[s] = "simulateTransaction" /\ simCalls[s] # <<>>)
      => (result[s].kind = "thrown" <=> simCalls[s][1] = SimThrew)

\* C17: signTranscationJito returns false exactly when the compiled message
\* is longer than 1232 bytes or has 64 or more account keys, and then it has
\* simulated nothing, asked the wallet for nothing and sent nothing.
C17_OversizeReturnsFalse ==
  \A s \in Subs :
    op[s] = "signTranscationJito"
      => /\ (blockhash[s] # -1 /\ (versionedTransaction[s].size > MaxTotalSize
                                   \/ versionedTransaction[s].keys >= MaxTotalKeys))
              => /\ pc[s] = "done" /\ result[s] = Returned(False)
                 /\ simCalls[s] = <<>> /\ walletCalls[s] = 0 /\ sent[s] = <<>>
                 /\ rpcLog[s] = {<<"getLatestBlockhashAndContext", "primary">>}
         /\ (result[s].kind = "returned" /\ result[s].value = False)
              => (versionedTransaction[s].size > MaxTotalSize
                  \/ versionedTransaction[s].keys >= MaxTotalKeys)

\* Reached: a message of 1232 bytes with 64 keys was refused.
C17_Witness ==
  \E s \in Subs :
    /\ op[s] = "signTranscationJito"
    /\ versionedTransaction[s].size = MaxTotalSize
    /\ versionedTransaction[s].keys = MaxTotalKeys
    /\ result[s] = Returned(False)

\* C18: on every path a message longer than 1232 bytes or with 64 or more
\* account keys is never signed by the wallet and never sent.
C18_OversizeNeverSignedOrSent ==
  \A s \in Subs :
    ~Fits(versionedTransaction[s]) => walletCalls[s] = 0 /\ sent[s] = <<>>

\* A relay-mode call whose transaction the relay accepted: the relay's answer
\* carried an identifier.
RelayAccepted(s) == op[s] = "sendAndConfirmTrancationJito" /\ signature[s] # <<>>

\* C19: in relay mode, once the relay has accepted the transaction, every
\* loop iteration resends the raw bytes to the primary network and then polls
\* the status of the relay's identifier; the call returns that identifier
\* after the first poll that reports processed, confirmed or finalized and
\* never resends after it; and when no poll does so before the block height
\* reaches lastValidBlockHeight, the loop ends and the call fails with the
\* 'was not confirmed' error carrying the identifier.
C19_RelayLoop ==
  /\ [](\A s \in Subs :
          RelayAccepted(s)
            => /\ sent[s][1].to = "relay"
               /\ \A j \in 2..Len(sent[s]) :
                    sent[s][j] = [to |-> "primary", bytes |-> rawTx[s]]
               /\ nPolls[s] <= Len(sent[s]) - 1
               /\ Len(sent[s]) - 1 <= nPolls[s] + 1
               /\ pc[s] = "poll" => Len(sent[s]) - 1 = nPolls[s] + 1
               /\ pc[s] = "send"
                    => signatureStatus[s] \notin {"processed", "confirmed", "finalized"}
               /\ result[s].kind = "returned"
                    => /\ result[s].value = signature[s]
                       /\ signatureStatus[s] \in {"processed", "confirmed", "finalized"}
                       /\ StatusOf(signature[s]) # "null"
               /\ (pc[s] = "done" /\ result[s].description = "was not confirmed")
                    => /\ result[s].kind = "thrown"
                       /\ result[s].value = signature[s]
                       /\ blockHeight >= lastValidBlockHeight[s]
                       /\ signatureStatus[s] \notin {"processed", "confirmed", "finalized"})
  /\ \A s \in Subs :
       (RelayAccepted(s) /\ lastValidBlockHeight[s] <= MaxHeight) ~> (pc[s] = "done")

\* Reached: the relay accepted, the loop resent twice without a poll
\* reporting the transaction, and the call ended as not confirmed.
C19_Witness ==
  \E s \in Subs :
    /\ RelayAccepted(s) /\ pc[s] = "done"
    /\ result[s] = NotConfirmed(signature[s])
    /\ Len(sent[s]) = 3 /\ nPolls[s] = 2

\* C20: the lastValidBlockHeight a call checks expiry against is that of the
\* blockhash bound into the transaction it sends, so that its loop stops
\* sending when that transaction's own validity window has passed.
C20_ExpiryOfOwnBlockhash ==
  \A s \in Subs :
    (op[s] \in {"processTransaction", "sendAndConfirmTransaction",
                "sendAndConfirmTrancationJito"}
     /\ lastValidBlockHeight[s] # -1 /\ versionedTransaction[s] # NoTx)
      => lastValidBlockHeight[s] = versionedTransaction[s].blockhash + ValidWindow

\* C21: the instruction list of the transaction handed to processTransaction,
\* signTransaction, simulateTransaction or signTranscationJito is, at every
\* moment of the call and when it has returned or failed, the list the caller
\* handed over, so that a second call on the same object compiles the same
\* instructions.
C21_InstructionsUntouched ==
  \A s \in Subs :
    op[s] \in {"processTransaction", "signTransaction", "simulateTransaction",
               "signTranscationJito"}
      => transaction[s].instructions = CallerInstructions

\* The kinds of a ProcessTransactionError.
Kinds == {"TransactionBuildingError", "SimulationError", "TimeoutError",
          "FallthroughError", "NetworkError"}

Local(s) ==
  <<transaction[s], pc[s], blockhash[s], lastValidBlockHeight[s],
    versionedTransaction[s], signature[s], status[s], i[s], rawTx[s],
    signatureStatus[s], result[s], error[s], sent[s], rpcLog[s], simCalls[s],
    nPolls[s], nReads[s], firstTargetPoll[s], walletCalls[s], nFetch[s],
    simOpts[s]>>

\* C23: two submissions of distinct transactions in flight on one client, their
\* steps interleaved in every order, share no mutable state: no step changes
\* the client's fields, a step of one submission changes nothing the other
\* holds and hands the network only its own transaction, and what a
\* submission sends, polls and returns is determined by its own transaction
\* and the network's answers about it, as when it runs alone.
C23_NoSharedState ==
  /\ [][/\ clientVars' = clientVars
        /\ \A s \in Subs : \A u \in Subs \ {s} :
             Local(s)' # Local(s) => Local(u)' = Local(u)
        /\ \A g \in DOMAIN ledger' \ DOMAIN ledger :
             \E s \in Subs : Local(s)' # Local(s) /\ g = Sig(versionedTransaction[s])
       ]_vars
  /\ [](\A s \in Subs :
          /\ \A j \in 1..Len(sent[s]) :
               sent[s][j].bytes = Serialize(versionedTransaction[s])
          /\ signature[s] \in {<<>>, Sig(versionedTransaction[s])}
          /\ result[s].kind = "returned"
               => /\ result[s].value = Sig(versionedTransaction[s])
                  /\ Rank(StatusOf(Sig(versionedTransaction[s]))) >=
                       Rank(IF op[s] = "processTransaction"
                            THEN "finalized" ELSE "processed")
          /\ result[s].description = "block height exceeded"
               => blockHeight > lastValidBlockHeight[s])

\* Reached: both calls wait for their confirmation at the same time, the
\* later-started one having sent first.
C23_Witness ==
  /\ pc[1] = "confirm" /\ pc[2] = "confirm"
  /\ DOMAIN ledger = {Sig(versionedTransaction[1]), Sig(versionedTransaction[2])}
  /\ blockhash[1] < blockhash[2]
  /\ StatusOf(signature[2]) = "finalized" /\ StatusOf(signature[1]) = "null"

\* A processTransaction call that submits: neither dry-run nor read-only.
SubmittingCall(s) ==
  op[s] = "processTransaction" /\ ~processTransaction_simulateOnly(s)

\* C24: in a processTransaction call that submits, the blockhash is fetched
\* once, before anything else; the wallet is asked to sign once, after the
\* fetch; the one pre-check simulation (spam mode with the pre-check on) is of
\* the wallet-signed transaction; every send follows the wallet's signature
\* and, where the pre-check is on, the pre-check's success, and carries the
\* one signed transaction; every poll follows a send.
C24_StepOrder ==
  \A s \in Subs : SubmittingCall(s) =>
    /\ nFetch[s] = (IF pc[s] = "start" THEN 0 ELSE 1)
    /\ walletCalls[s] <= 1
    /\ walletCalls[s] = 1 => blockhash[s] # -1
    /\ Len(simCalls[s]) <= 1
    /\ simCalls[s] # <<>> =>
         /\ PrecheckCall(s) /\ walletCalls[s] = 1
         /\ "wallet" \in versionedTransaction[s].sigs
    /\ sent[s] # <<>> =>
         /\ walletCalls[s] = 1
         /\ "wallet" \in versionedTransaction[s].sigs
         /\ PrecheckCall(s) => Len(simCalls[s]) = 1 /\ simCalls[s][1].err = "null"
         /\ \A k \in 1..Len(sent[s]) :
              sent[s][k].bytes = Serialize(versionedTransaction[s])
    /\ nPolls[s] > 0 => sent[s] # <<>>

\* A spam-mode call with the pre-check on has resent and polled.
C24_Witness ==
  \E s \in Subs :
    /\ SubmittingCall(s) /\ PrecheckCall(s)
    /\ Len(sent[s]) >= 2 /\ nPolls[s] > 0
    /\ nFetch[s] = 1 /\ walletCalls[s] = 1 /\ Len(simCalls[s]) = 1

\* The calls that pass options to a simulation: processTransaction (dry run
\* and pre-check), sendAndConfirmTransaction (pre-check), signTranscationJito.
SimulatesWithSlot(s) ==
  op[s] \in {"processTransaction", "sendAndConfirmTransaction", "signTranscationJito"}

\* C25: every simulation made by processTransaction, by
\* sendAndConfirmTransaction's pre-check and by signTranscationJito is passed a
\* minContextSlot equal to the context slot of the call's blockhash snapshot
\* minus 4, whether or not the caller supplied options.
C25_MinContextSlot ==
  \A s \in Subs : SimulatesWithSlot(s) =>
    \A k \in 1..Len(simOpts[s]) : simOpts[s][k] = {minContextSlot(s)}

\* The primary network was used on behalf of the submission: a send to it or
\* a status poll.
PrimaryUsed(s) ==
  \/ \E k \in 1..Len(sent[s]) : sent[s][k].to = "primary"
  \/ nPolls[s] > 0

\* C26: in relay mode the relay submission comes first, the primary network
\* is sent to and polled only after the relay returned an identifier, and a
\* failed POST ends the call with 'Jito Bundle Error: cannot send.' after the
\* relay submission alone.
C26_RelayFirst ==
  \A s \in Subs : op[s] = "sendAndConfirmTrancationJito" =>
    /\ sent[s] # <<>> => sent[s][1].to = "relay"
    /\ PrimaryUsed(s) => signature[s] # <<>>
    /\ (pc[s] = "done" /\ result[s] = Raw("Jito Bundle Error: cannot send.")) =>
         Len(sent[s]) = 1 /\ ~PrimaryUsed(s)

\* The block-height read of a spam-mode iteration is answered.
HeightRead(s) ==
  /\ SpamCall(s) /\ pc[s] = "height"
  /\ nReads'[s] = nReads[s] + 1 /\ result'[s] # Classify(RpcError)

\* C27: in spam mode the block-height read decides before the status does:
\* when the height read is above lastValidBlockHeight the call fails, also
\* when a poll of that iteration reported the target; the call returns only
\* when the target was reported and the height read is at most
\* lastValidBlockHeight, and then it does return.
C27_ExpiryWins ==
  [][\A s \in Subs : HeightRead(s) =>
       /\ blockHeight > lastValidBlockHeight[s] =>
            pc'[s] = "done" /\ result'[s].kind = "thrown"
       /\ result'[s].kind = "returned" <=>
            /\ firstTargetPoll[s] > 0 /\ status[s] \in Target(s)
            /\ blockHeight <= lastValidBlockHeight[s]]_vars

\* Reached: a poll reported the target, and the block-height read of that
\* iteration found the blockhash expired: the call failed.
C27_Witness ==
  \E s \in Subs :
    /\ SpamCall(s) /\ pc[s] = "done" /\ firstTargetPoll[s] > 0
    /\ result[s].kind = "thrown"
    /\ result[s].description = "not confirmed in time"

\* The levels at which the relay loop returns (line 1037).
RelayTarget == {"processed", "confirmed", "finalized"}

\* A status poll of call s is answered.
PollAnswered(s) ==
  /\ pc[s] = "poll" /\ nPolls'[s] = nPolls[s] + 1
  /\ result'[s].kind = "pending"

\* C28: in spam and relay mode a poll is read for its confirmationStatus
\* alone: a poll answered with the target level counts as the target whether
\* or not the status carries an execution error, so a call that returns may
\* return the signature of a transaction that failed on chain; what a call
\* returns after a poll at the target depends on the block height only.
C28_ErrNeverConsulted ==
  /\ [][\A s \in Subs :
          /\ (SpamCall(s) /\ PollAnswered(s)
                /\ SignatureStatus(signature[s]).confirmationStatus \in Target(s))
               => (status'[s] \in Target(s) /\ pc'[s] = "height")
          /\ (op[s] = "sendAndConfirmTrancationJito" /\ PollAnswered(s))
               => signatureStatus'[s] =
                    SignatureStatus(signature[s]).confirmationStatus]_vars
  /\ [][\A s \in Subs :
          (op[s] = "sendAndConfirmTrancationJito" /\ pc[s] = "height"
             /\ nReads'[s] = nReads[s] + 1 /\ result'[s] # Raw("rpc"))
          => (signatureStatus[s] \in RelayTarget
                <=> result'[s] = Returned(signature[s]))]_vars

\* Reached: a call returned the signature of a transaction that reached the
\* target level and whose execution failed on chain.
C28_Witness ==
  \E s \in Subs :
    /\ SpamCall(s) \/ op[s] = "sendAndConfirmTrancationJito"
    /\ result[s].kind = "returned"
    /\ SignatureStatus(result[s].value).err = "err"
    /\ SignatureStatus(result[s].value).confirmationStatus \in Target(s)

\* A send of the spam loop threw.
SendThrew(s) ==
  /\ SpamCall(s) /\ pc[s] = "send"
  /\ Len(sent'[s]) = Len(sent[s]) + 1 /\ error'[s] # NoError

\* C29: in spam mode an exception thrown by a send, the first or a resend,
\* ends the submission at once: the call throws SimulationError when the error
\* is a SendTransactionError with logs and FallthroughError otherwise, the
\* failed send is followed by no poll and no block-height read, and a call
\* that has ended makes no further call.
C29_SendFailureEndsLoop ==
  /\ [][\A s \in Subs : SendThrew(s) =>
          /\ pc'[s] = "done" /\ result'[s].kind = "thrown"
          /\ result'[s].type =
               (IF error'[s].cls = "SendTransactionError"
                   /\ error'[s].logs # "undefined"
                THEN "SimulationError" ELSE "FallthroughError")
          /\ nPolls'[s] = nPolls[s] /\ nReads'[s] = nReads[s]]_vars
  /\ [][\A s \in Subs : (SpamCall(s) /\ pc[s] = "done") =>
          /\ pc'[s] = "done" /\ result'[s] = result[s]
          /\ sent'[s] = sent[s] /\ rpcLog'[s] = rpcLog[s]
          /\ nPolls'[s] = nPolls[s] /\ nReads'[s] = nReads[s]]_vars

\* Reached: a resend threw after an earlier send was accepted and the
\* transaction had reached 'confirmed' on the node; the call ended with the
\* classified failure.
C29_Witness ==
  \E s \in Subs :
    /\ SpamCall(s) /\ op[s] = "processTransaction" /\ pc[s] = "done"
    /\ Len(sent[s]) >= 2 /\ error[s] \in SendErrors
    /\ signature[s] # <<>> /\ StatusOf(signature[s]) = "confirmed"
    /\ nPolls[s] = PollAttempts * (Len(sent[s]) - 1)
    /\ nReads[s] = Len(sent[s]) - 1
    /\ result[s].type = "SimulationError"

\* C30: signTranscationJito signs whatever the simulation reports: after a
\* simulation that was answered, with or without an error in the response,
\* the wallet is asked to sign and the call ends with the wallet-signed
\* transaction (or with the wallet's own failure); only a simulate call that
\* threw ends the call without the wallet having been asked.
C30_SimulationDoesNotGateSigning ==
  \A s \in Subs :
    (op[s] = "signTranscationJito" /\ simCalls[s] # <<>>) =>
      /\ Len(simCalls[s]) = 1
      /\ IF simCalls[s][1] = SimThrew
         THEN /\ pc[s] = "done" /\ walletCalls[s] = 0
              /\ result[s].kind = "thrown"
              /\ "wallet" \notin versionedTransaction[s].sigs
         ELSE /\ pc[s] \in {"walletSign", "done"}
              /\ pc[s] = "done" =>
                   /\ walletCalls[s] = 1
                   /\ \/ /\ result[s] = Returned(Serialize(versionedTransaction[s]))
                         /\ "wallet" \in versionedTransaction[s].sigs
                      \/ /\ result[s] = Thrown("FallthroughError", "wallet", "undefined")
                         /\ "wallet" \notin versionedTransaction[s].sigs

\* Reached: the simulation reported an error and the call returned the
\* transaction with the wallet's signature.
C30_Witness ==
  \E s \in Subs :
    /\ op[s] = "signTranscationJito" /\ pc[s] = "done"
    /\ Len(simCalls[s]) = 1 /\ simCalls[s][1].err = "err"
    /\ result[s].kind = "returned"
    /\ "wallet" \in versionedTransaction[s].sigs

====
